---- MODULE Spec2Model ----
\* Model of the refresh-job subsystem of the GoodFirstFinder backend:
\* the FetchJob queue, the job worker (backend/src/jobs/jobWorker.js), the two
\* enqueue paths (routes/search.js detail view, routes/repos.js manual
\* refresh) and the cleanup sweeper (jobs/cleanupRepos.js), over one database.
\* Every await that reads or writes a table is one step; steps of different
\* handlers interleave. Calls to the external source touch no table and are
\* taken together with the step they follow or precede.
EXTENDS Integers, Sequences, FiniteSets, TLC

\* ------------------------------------------------------------------ bounds
MaxJobs     == 2   \* FetchJob rows ever created
MaxRepoId   == 2   \* Repository rows ever created (autoincrement ids)
MaxTicks    == 1   \* times the clock advances
MaxVer      == 2   \* metadata versions a repository goes through at the source
MaxAct      == 1   \* largest activity counter value the source returns
MaxRequests == 2   \* HTTP requests served
MaxRuns     == 4   \* job claims (handler runs) over all jobs
MaxFires    == 2   \* firings of the sweeper's interval timer
MaxDays     == 2   \* days that pass while the sweeper is observed on its own
MaxResp     == 5   \* responses the source has in store for one call of the client
MaxIssues   == 3   \* issue records in one activity fetch
MaxPulls    == 2   \* pull-request records in one activity fetch
MaxClock    == 62  \* seconds the rate limiter is observed for

\* ------------------------------------------------------- program constants
RetryLimit            == 3    \* jobWorker.js:89   attempts + 1 >= 3
REPO_TTL_DAYS         == 7    \* cleanupRepos.js:19
RefreshThresholdHours == 12   \* search.js:212
RetryAttempts         == 3    \* githubService.js:53   attempt <= 3
BackoffSeconds        == 3    \* githubService.js:56   attempt * 3
tokensPerInterval     == 20   \* search.js:20   makeRateLimiter({tokensPerInterval: 20, ...})
intervalSeconds       == 60   \* search.js:20   intervalMs: 60_000

\* ------------------------------------------------------------- null values
NoTime  == -1          \* a null DateTime column
NoEtag  == 0           \* a null / undefined etag (falsy)
NoData  == 0           \* fetchRepository answered 304: data is null
NoAct   == -1          \* computeHealthScore called with activitySummary = null
NoRow   == 0           \* findFirst / findUnique returned null
NoError == "null"      \* FetchJob.lastError = null
NoRetryAfter == -1     \* a response without a retry-after header

FullNames == {"o/r"}
ActVals   == 0..MaxAct
TickDays  == REPO_TTL_DAYS + 1      \* the clock advances by more than the TTL
MaxTime   == MaxTicks * TickDays

ErrNotFound == "Repository not found"          \* jobWorker.js:159
ErrFetch    == "Request failed"                \* thrown by the GitHub client
ErrTx       == "Record to update not found"    \* thrown by prisma.$transaction
ErrDb       == "Can't reach database server"   \* thrown by prisma.repository.deleteMany

\* Two invocations of processAllQueuedJobs that can be running at once:
\* startJobWorker calls it at once (jobWorker.js:300) and from every cron
\* callback (jobWorker.js:292), which does not wait for an earlier invocation.
Cycles   == {"c1", "c2"}
\* One in-flight request of each enqueueing route.
Requests == {"view", "manual"}

VARIABLES
  now,        \* wall clock, in days
  srcVer,     \* external source: current metadata version of each repository
  repos,      \* table Repository: set of rows
  nextRepoId, \* autoincrement of Repository.id
  activity,   \* table RepoActivity: set of rows
  nextActId,  \* autoincrement of RepoActivity.id
  jobs,       \* table FetchJob: sequence in createdAt order, index = id
  cycle,      \* per processAllQueuedJobs invocation: position and locals
  req,        \* per request handler: position and locals
  served,     \* requests accepted so far
  hist,       \* history per job: the outcome of each of its attempts
  sweeper,    \* the caller of the sweeper: scheduler state and what the sweeps returned
  call,       \* one call of the GitHub client: responses to come, requests issued
  calc,       \* one call of a pure function of healthScore.js: argument and result
  limiter     \* the search route's rate limiter: its clock, its buckets, what it answered

vars == <<now, srcVer, repos, nextRepoId, activity, nextActId, jobs, cycle, req, served, hist,
          sweeper, call, calc, limiter>>
\* The scheduler drops what a sweep returns, and the client keeps nothing from
\* one call to the next: the handlers of the job subsystem leave both alone.
apart == <<sweeper, call, calc, limiter>>

\* ------------------------------------------------------------------- rows
\* computeHealthScore (healthScore.js:6-45): the score is a function of the
\* repository metadata and of the activity summary; it is kept here as the
\* pair of inputs it was computed from (meta: the metadata version, act: the
\* activity counters or NoAct).
computeHealthScore(meta, act) == [meta |-> meta, act |-> act]

NullRepo == [id |-> NoRow, fullName |-> "", meta |-> NoData, etag |-> NoEtag,
             healthScore |-> computeHealthScore(NoData, NoAct),
             healthRefreshedAt |-> NoTime, lastFetchedAt |-> NoTime]

RepoById(id)     == {r \in repos : r.id = id}
RepoByName(name) == {r \in repos : r.fullName = name}
findUnique(rows) == IF rows = {} THEN NullRepo ELSE CHOOSE r \in rows : TRUE

JobIds    == 1..Len(jobs)
QueuedIds == {j \in JobIds : jobs[j].status = "queued"}
\* fetchJob.findFirst({where: {status: "queued"}, orderBy: {createdAt: "asc"}})
OldestQueued == IF QueuedIds = {} THEN NoRow
                ELSE CHOOSE j \in QueuedIds : \A k \in QueuedIds : j <= k

\* a duplicate check that looks at queued jobs only
QueuedOnlyStatuses == {"queued"}

\* fetchJob.findFirst({where: {kind, status: {in: [queued, processing]}, payload repoId}})
ExistingJobStatuses == {"queued", "processing"}
ExistingJobs(repoId) ==
  {j \in JobIds : jobs[j].repoId = repoId /\ jobs[j].status \in ExistingJobStatuses}

\* fetchRepository (githubService.js:169-204): a conditional request; the
\* validator of a version is the version number.
fetchRepository(name, etag) ==
  IF etag # NoEtag /\ etag = srcVer[name]
    THEN [etag |-> etag, data |-> NoData]
    ELSE [etag |-> srcVer[name], data |-> srcVer[name]]

\* -------------------------------------------------------------- locals
\* Locals of a processAllQueuedJobs invocation. job and attempts are the
\* snapshot `job` of processNextJob; name, meta and etag hold the loaded
\* `repository` and, after the fetch, updatedRepoData and the etag to write.
\* n is the number of the attempt in progress: the value of attempts that the
\* claiming update wrote.
IdleCycle == [pc |-> "idle", job |-> NoRow, attempts |-> 0, n |-> 0, name |-> "",
              meta |-> NoData, etag |-> NoEtag, data |-> NoData, window |-> NoTime,
              act |-> NoAct, existing |-> NoRow, err |-> NoError]
\* Locals of a request handler: fullName, the id and etag of `repository`,
\* the fetched data.
IdleReq   == [pc |-> "idle", name |-> "", repoId |-> NoRow, etag |-> NoEtag, data |-> NoData]

\* hist[j][k] is the outcome of attempt k of job j: in progress, returned, or
\* the message of the error it threw
Running == "running"
Ok      == "ok"

\* No sweep has been called: the scheduler is not started, nothing returned.
\* ret and prev are what the last sweep and the one before returned; streak
\* counts the sweeps that returned one after the other, with no write to the
\* database and no new clock reading in between.
NoReturn    == [deleted |-> -1, error |-> NoError]
IdleSweeper == [started |-> FALSE, fires |-> 0, sweeps |-> 0, caught |-> 0,
                ret |-> NoReturn, prev |-> NoReturn, streak |-> 0]
\* No pure function is being applied; out is <<>> until the function returns.
IdleCalc    == [fn |-> "none", arg |-> <<>>, out |-> <<>>]
\* The rate limiter before any request: no bucket in its map (buckets.get(key)
\* is undefined), nothing admitted. admitted counts the requests of each
\* address that it let through during the first interval, lastAdmit is when it
\* last let one through, ip and answer are the last request's address and status.
Ips         == {"10.0.0.1"}
NoBucket    == [tokens |-> -1, updatedAt |-> NoTime]
IdleLimiter == [clock |-> 0, buckets |-> [ip \in Ips |-> NoBucket],
                admitted |-> [ip \in Ips |-> 0], lastAdmit |-> [ip \in Ips |-> NoTime],
                ip |-> "", answer |-> 0]
\* No call of the client is in progress.
IdleCall    == [pc |-> "idle", resp |-> <<>>, attempt |-> 0, requests |-> 0,
                waits |-> <<>>, out |-> ""]

Init ==
  /\ now = 0
  /\ srcVer = [n \in FullNames |-> 1]
  /\ repos = {}
  /\ nextRepoId = 1
  /\ activity = {}
  /\ nextActId = 1
  /\ jobs = <<>>
  /\ cycle = [c \in Cycles |-> IF c = "c1" THEN [IdleCycle EXCEPT !.pc = "loop"] ELSE IdleCycle]
  /\ req = [r \in Requests |-> IdleReq]
  /\ served = 0
  /\ hist = <<>>
  /\ sweeper = IdleSweeper
  /\ call = IdleCall
  /\ calc = IdleCalc
  /\ limiter = IdleLimiter

\* ------------------------------------------------ job worker (jobWorker.js)
Payload(j) == jobs[j].repoId      \* job.payload.repoId, never rewritten

SetCycle(c, rec) == cycle' = [cycle EXCEPT ![c] = rec]
Goto(c, pc)      == SetCycle(c, [cycle[c] EXCEPT !.pc = pc])
\* an invocation that returns after the job it has just processed
LeaveLoop(c)     == SetCycle(c, IdleCycle)
\* back to the head of the while loop of processAllQueuedJobs, locals dropped
BackToLoop(c)    == SetCycle(c, [IdleCycle EXCEPT !.pc = "loop"])

\* the attempt in progress in invocation c ends with outcome o
Outcome(c, o) == hist' = [hist EXCEPT ![cycle[c].job][cycle[c].n] = o]

\* a step of handleRefreshRepo throws: control goes to the catch block
Thrown(c, msg) == [IdleCycle EXCEPT !.pc = "catch", !.job = cycle[c].job,
                                    !.attempts = cycle[c].attempts, !.err = msg]
Throw(c, msg) ==
  /\ SetCycle(c, Thrown(c, msg))
  /\ Outcome(c, msg)

\* cron.schedule callback (jobWorker.js:292-296): a new invocation starts,
\* whether or not another one is still running. The fetchJob.count it begins
\* with (jobWorker.js:109-115) is only logged.
StartCycle(c) ==
  /\ cycle[c].pc = "idle"
  /\ Goto(c, "loop")
  /\ UNCHANGED <<apart, now, srcVer, repos, nextRepoId, activity, nextActId, jobs, req, served, hist>>

\* One pass of the while loop up to the claim: the findFirst of
\* processAllQueuedJobs (jobWorker.js:119-129), which ends the invocation when
\* nothing is queued, and the findFirst of processNextJob (jobWorker.js:50-58),
\* which takes the snapshot `job` and, when it finds nothing, leads back to the
\* first. Only the second result is used, so the two reads are one step.
NextFind(c) ==
  /\ cycle[c].pc = "loop"
  /\ IF OldestQueued = NoRow
       THEN SetCycle(c, IdleCycle)
       ELSE SetCycle(c, [cycle[c] EXCEPT !.pc = "claim", !.job = OldestQueued,
                                         !.attempts = jobs[OldestQueued].attempts])
  /\ UNCHANGED <<apart, now, srcVer, repos, nextRepoId, activity, nextActId, jobs, req, served, hist>>

\* claims made so far, over all jobs
RECURSIVE TotalAttempts(_)
TotalAttempts(n) == IF n = 0 THEN 0 ELSE jobs[n].attempts + TotalAttempts(n - 1)

\* processNextJob: update to processing (jobWorker.js:64-67); the increment is
\* done by the database on the stored value. handleRefreshRepo is entered as
\* soon as the update has returned.
ClaimedRow(row) == [row EXCEPT !.status = "processing", !.attempts = @ + 1, !.lastError = NoError]
ClaimJob(c) ==
  LET j == cycle[c].job
  IN /\ cycle[c].pc = "claim"
     /\ jobs' = [jobs EXCEPT ![j] = ClaimedRow(@)]
     /\ SetCycle(c, [cycle[c] EXCEPT !.pc = "load", !.n = jobs[j].attempts + 1])
     /\ hist' = [hist EXCEPT ![j] = Append(@, Running)]
     /\ UNCHANGED <<apart, now, srcVer, repos, nextRepoId, activity, nextActId, req, served>>
\* the claim, while the bound on handler runs allows one more
Claim(c) == TotalAttempts(Len(jobs)) < MaxRuns /\ ClaimJob(c)

\* handleRefreshRepo: repository.findUnique (jobWorker.js:151-160)
Load(c) ==
  LET row == findUnique(RepoById(Payload(cycle[c].job)))
  IN /\ cycle[c].pc = "load"
     /\ IF row = NullRepo
          THEN Throw(c, ErrNotFound)
          ELSE /\ SetCycle(c, [cycle[c] EXCEPT !.pc = "fetch", !.name = row.fullName,
                                               !.meta = row.meta, !.etag = row.etag])
               /\ UNCHANGED hist
     /\ UNCHANGED <<apart, now, srcVer, repos, nextRepoId, activity, nextActId, jobs, req, served>>

\* updatedRepoData = repoData || {the loaded row's fields} (jobWorker.js:183-191)
UpdatedMeta(data, loaded) == IF data # NoData THEN data ELSE loaded
\* a commit that keeps the etag it loaded
LoadedEtag(etag, loaded) == loaded
\* etag || repository.etag (jobWorker.js:222)
UpdatedEtag(etag, loaded) == IF etag # NoEtag THEN etag ELSE loaded

\* handleRefreshRepo: fetchRepository (jobWorker.js:164-166), then
\* fetchRepositoryActivity and summarizeActivity, whose window ends now
\* (jobWorker.js:171-179, healthScore.js:47-49). Both calls go to the source
\* and touch no table, so they are one step; either may throw.
Fetch(c) ==
  LET res == fetchRepository(cycle[c].name, cycle[c].etag)
  IN /\ cycle[c].pc = "fetch"
     /\ \/ /\ \E a \in ActVals :
                SetCycle(c, [cycle[c] EXCEPT !.pc = "findAct",
                                             !.meta = UpdatedMeta(res.data, cycle[c].meta),
                                             !.etag = UpdatedEtag(res.etag, cycle[c].etag),
                                             !.data = res.data,
                                             !.act = a, !.window = now])
           /\ UNCHANGED hist
        \/ Throw(c, ErrFetch)
     /\ UNCHANGED <<apart, now, srcVer, repos, nextRepoId, activity, nextActId, jobs, req, served>>

\* handleRefreshRepo: repoActivity.findFirst for this window (jobWorker.js:201-207)
WindowRows(repoId, window) == {a \in activity : a.repoId = repoId /\ a.window = window}
FindAct(c) ==
  LET rows == WindowRows(Payload(cycle[c].job), cycle[c].window)
  IN /\ cycle[c].pc = "findAct"
     /\ IF rows = {}
          THEN Goto(c, "commit")
          ELSE \E a \in rows : SetCycle(c, [cycle[c] EXCEPT !.pc = "commit", !.existing = a.id])
     /\ UNCHANGED <<apart, now, srcVer, repos, nextRepoId, activity, nextActId, jobs, req, served, hist>>

\* the operations of the transaction (jobWorker.js:210-260); healthScore is
\* computeHealthScore({...repository, ...updatedRepoData}, activitySummary)
RefreshedRow(c, row) ==
  [row EXCEPT !.meta = cycle[c].meta, !.etag = cycle[c].etag,
              !.healthScore = computeHealthScore(cycle[c].meta, cycle[c].act),
              !.healthRefreshedAt = now]
TxRepos(c) ==
  {IF r.id = Payload(cycle[c].job) THEN RefreshedRow(c, r) ELSE r : r \in repos}
\* a refresh that writes the record and leaves the activity table alone
ActivityNotWritten(c) == activity
TxActivity(c) ==
  IF cycle[c].existing = NoRow
    THEN activity \cup {[id |-> nextActId, repoId |-> Payload(cycle[c].job),
                         window |-> cycle[c].window, act |-> cycle[c].act]}
    ELSE {IF a.id = cycle[c].existing THEN [a EXCEPT !.act = cycle[c].act] ELSE a : a \in activity}
\* an update of a row that is gone throws, and the transaction rolls back
TxThrows(c) ==
  \/ RepoById(Payload(cycle[c].job)) = {}
  \/ cycle[c].existing # NoRow /\ ~ \E a \in activity : a.id = cycle[c].existing
\* a failed refresh whose activity write stays
ActivityWriteKept(c) == TxActivity(c)
\* a transaction that throws leaves both tables as they were
ReposAfterFailedTx(c)    == repos
ActivityAfterFailedTx(c) == activity

\* handleRefreshRepo: prisma.$transaction(operations) (jobWorker.js:263)
Commit(c) ==
  /\ cycle[c].pc = "commit"
  /\ IF TxThrows(c)
       THEN /\ Throw(c, ErrTx)
            /\ repos' = ReposAfterFailedTx(c)
            /\ activity' = ActivityAfterFailedTx(c)
            /\ UNCHANGED nextActId
       ELSE /\ repos' = TxRepos(c)
            /\ activity' = TxActivity(c)
            /\ nextActId' = IF cycle[c].existing = NoRow THEN nextActId + 1 ELSE nextActId
            /\ SetCycle(c, [IdleCycle EXCEPT !.pc = "complete", !.job = cycle[c].job,
                                             !.attempts = cycle[c].attempts])
            /\ Outcome(c, Ok)
  /\ UNCHANGED <<apart, now, srcVer, nextRepoId, jobs, req, served>>

\* processNextJob: update to completed (jobWorker.js:77-82)
Complete(c) ==
  /\ cycle[c].pc = "complete"
  /\ jobs' = [jobs EXCEPT ![cycle[c].job] = [@ EXCEPT !.status = "completed"]]
  /\ BackToLoop(c)
  /\ UNCHANGED <<apart, now, srcVer, repos, nextRepoId, activity, nextActId, req, served, hist>>

\* a catch block that leaves the job as the claim left it
StatusLeftProcessing(attempts) == "processing"
\* processNextJob: the catch block (jobWorker.js:83-93); job.attempts is the
\* value read by findFirst, before the increment
StatusAfterFailure(attempts) == IF attempts + 1 >= RetryLimit THEN "failed" ELSE "queued"
Catch(c) ==
  /\ cycle[c].pc = "catch"
  /\ jobs' = [jobs EXCEPT ![cycle[c].job] =
                [@ EXCEPT !.status = StatusAfterFailure(cycle[c].attempts),
                          !.lastError = cycle[c].err]]
  /\ BackToLoop(c)
  /\ UNCHANGED <<apart, now, srcVer, repos, nextRepoId, activity, nextActId, req, served, hist>>

\* ------------------------------------- request handlers (search.js, repos.js)
SetReq(r, rec) == req' = [req EXCEPT ![r] = rec]
Respond(r)     == SetReq(r, IdleReq)
\* the server accepts one more request
Accept == served < MaxRequests /\ served' = served + 1

\* GET /api/search/:owner/:repo: repository.findUnique by fullName
\* (search.js:116-125), then fetchRepository(fullName, {etag: repository?.etag})
\* (search.js:129-131), which touches no table; an error of the source goes
\* to next(error)
ViewFind(name) ==
  LET row == findUnique(RepoByName(name))
      res == fetchRepository(name, row.etag)
  IN /\ req["view"].pc = "idle"
     /\ Accept
     /\ \/ SetReq("view", [IdleReq EXCEPT !.pc = "store", !.name = name, !.repoId = row.id,
                                           !.etag = res.etag, !.data = res.data])
        \/ Respond("view")
     /\ UNCHANGED <<apart, now, srcVer, repos, nextRepoId, activity, nextActId, jobs, cycle, hist>>

\* needsRefresh (search.js:211-215), the clock in days
needsRefresh(row) ==
  \/ row.healthRefreshedAt = NoTime
  \/ (now - row.healthRefreshedAt) * 24 > RefreshThresholdHours

\* the row written by repository.create (search.js:134-167)
CreatedRow(name, data, etag) ==
  [id |-> nextRepoId, fullName |-> name, meta |-> data, etag |-> etag,
   healthScore |-> computeHealthScore(data, NoAct),
   healthRefreshedAt |-> NoTime, lastFetchedAt |-> now]
\* the row written by the update of changed data (search.js:168-191)
ViewUpdatedRow(row, data, etag) ==
  [row EXCEPT !.meta = data, !.etag = etag, !.lastFetchedAt = now]
\* a 304 path that leaves the record as it is
ViewUntouchedRow(row) == row
\* the row written on 304 Not Modified (search.js:192-207)
ViewTouchedRow(row) == [row EXCEPT !.lastFetchedAt = now]

\* search.js:209-217: on to the duplicate check when the health data is stale
AfterStore(row) ==
  IF needsRefresh(row)
    THEN SetReq("view", [IdleReq EXCEPT !.pc = "check", !.repoId = row.id])
    ELSE Respond("view")

\* create / update / touch of the record (search.js:134-207); a write to a
\* row that is gone, or a second row of the same fullName, throws
ViewStore ==
  LET L    == req["view"]
      name == L.name
      cur  == findUnique(RepoById(L.repoId))
  IN /\ L.pc = "store"
     /\ IF L.repoId = NoRow
          THEN IF RepoByName(name) # {}
                 THEN Respond("view") /\ UNCHANGED <<repos, nextRepoId>>
                 ELSE /\ nextRepoId <= MaxRepoId
                      /\ repos' = repos \cup {CreatedRow(name, L.data, L.etag)}
                      /\ nextRepoId' = nextRepoId + 1
                      /\ AfterStore(CreatedRow(name, L.data, L.etag))
          ELSE IF cur = NullRepo
                 THEN Respond("view") /\ UNCHANGED <<repos, nextRepoId>>
                 ELSE LET new == IF L.data # NoData
                                   THEN ViewUpdatedRow(cur, L.data, L.etag)
                                   ELSE ViewTouchedRow(cur)
                      IN /\ repos' = (repos \ {cur}) \cup {new}
                         /\ UNCHANGED nextRepoId
                         /\ AfterStore(new)
     /\ UNCHANGED <<apart, now, srcVer, activity, nextActId, jobs, cycle, served, hist>>

\* POST /api/repos/:id/refresh: repository.findUnique by id (repos.js:103-106)
ManualFind(id) ==
  /\ req["manual"].pc = "idle"
  /\ Accept
  /\ IF RepoById(id) = {}
       THEN Respond("manual")
       ELSE SetReq("manual", [IdleReq EXCEPT !.pc = "check", !.repoId = id])
  /\ UNCHANGED <<apart, now, srcVer, repos, nextRepoId, activity, nextActId, jobs, cycle, hist>>

\* the duplicate check of both routes (search.js:219-228, repos.js:109-122)
EnqueueCheck(r) ==
  /\ req[r].pc = "check"
  /\ IF ExistingJobs(req[r].repoId) = {}
       THEN SetReq(r, [req[r] EXCEPT !.pc = "create"])
       ELSE Respond(r)
  /\ UNCHANGED <<apart, now, srcVer, repos, nextRepoId, activity, nextActId, jobs, cycle, served, hist>>

\* fetchJob.create (search.js:233-238, repos.js:125-130)
NewJob(repoId) == [repoId |-> repoId, status |-> "queued", attempts |-> 0, lastError |-> NoError]
EnqueueCreate(r) ==
  /\ req[r].pc = "create"
  /\ Len(jobs) < MaxJobs
  /\ jobs' = Append(jobs, NewJob(req[r].repoId))
  /\ hist' = Append(hist, <<>>)
  /\ Respond(r)
  /\ UNCHANGED <<apart, now, srcVer, repos, nextRepoId, activity, nextActId, cycle, served>>

\* ------------------------------------------------ sweeper (cleanupRepos.js)
\* a cutoff that also takes the record fetched exactly one TTL ago
IsStaleInclusive(row) ==
  \/ row.lastFetchedAt = NoTime
  \/ row.lastFetchedAt <= now - REPO_TTL_DAYS
\* where: lastFetchedAt < cutoffDate OR lastFetchedAt = null (cleanupRepos.js:35-47)
IsStale(row) ==
  \/ row.lastFetchedAt = NoTime
  \/ row.lastFetchedAt < now - REPO_TTL_DAYS
\* a deleteMany that removes one matching row per call
OneStaleRepo ==
  LET stale == {r \in repos : IsStale(r)}
  IN IF stale = {} THEN {} ELSE {CHOOSE r \in stale : \A q \in stale : r.id <= q.id}
StaleRepos == {r \in repos : IsStale(r)}

\* a sweep whose deleteMany does not cascade to RepoActivity
cleanupWithoutCascade ==
  /\ repos' = repos \ StaleRepos
  /\ UNCHANGED <<apart, now, srcVer, nextRepoId, activity, nextActId, jobs, cycle, req, served, hist>>

\* cleanupStaleRepositories: one deleteMany; RepoActivity rows go by cascade
cleanupStaleRepositories ==
  /\ repos' = repos \ StaleRepos
  /\ activity' = {a \in activity : \A r \in StaleRepos : a.repoId # r.id}
  /\ UNCHANGED <<apart, now, srcVer, nextRepoId, nextActId, jobs, cycle, req, served, hist>>

\* ------------------------------------------------------------ environment
\* Time passes, by more than the TTL; meanwhile each repository may have
\* changed at the source: new metadata under a new validator.
Tick ==
  /\ now + TickDays <= MaxTime
  /\ now' = now + TickDays
  /\ \E changed \in SUBSET FullNames :
        srcVer' = [n \in FullNames |->
                     IF n \in changed /\ srcVer[n] < MaxVer THEN srcVer[n] + 1 ELSE srcVer[n]]
  /\ UNCHANGED <<apart, repos, nextRepoId, activity, nextActId, jobs, cycle, req, served, hist>>

Next ==
  \/ \E c \in Cycles : StartCycle(c)
  \/ \E c \in Cycles : NextFind(c)
  \/ \E c \in Cycles : Claim(c)
  \/ \E c \in Cycles : Load(c)
  \/ \E c \in Cycles : Fetch(c)
  \/ \E c \in Cycles : FindAct(c)
  \/ \E c \in Cycles : Commit(c)
  \/ \E c \in Cycles : Complete(c)
  \/ \E c \in Cycles : Catch(c)
  \/ \E n \in FullNames : ViewFind(n)
  \/ ViewStore
  \/ \E id \in 1..MaxRepoId : ManualFind(id)
  \/ \E r \in Requests : EnqueueCheck(r)
  \/ \E r \in Requests : EnqueueCreate(r)
  \/ cleanupStaleRepositories
  \/ Tick

Spec == Init /\ [][Next]_vars

Statuses == {"queued", "processing", "completed", "failed"}
TypeOK ==
  /\ now \in 0..MaxTime
  /\ served \in 0..MaxRequests
  /\ Len(hist) = Len(jobs)
  /\ \A j \in JobIds : /\ jobs[j].status \in Statuses
                       /\ jobs[j].attempts \in 0..MaxRuns
                       /\ Len(hist[j]) = jobs[j].attempts

\* ------------------------------------------------------------ vocabulary
Terminal    == {"completed", "failed"}
NonTerminal == {"queued", "processing"}
RepoIds     == 1..MaxRepoId
\* a processor invocation is inside the try block of processNextJob for job j
InTry(c)   == cycle[c].pc \in {"load", "fetch", "findAct", "commit", "complete", "catch"}
Working(j) == \E c \in Cycles : cycle[c].job = j /\ InTry(c)
\* attempt k of job j threw
FailedAt(j, k) == hist[j][k] \notin {Running, Ok}
AllFailed(j)   == \A k \in 1..Len(hist[j]) : FailedAt(j, k)

\* C1: for each repository identifier at most one job is queued or processing,
\* in every reachable state.
C1_OneNonTerminalJobPerRepo ==
  \A x \in RepoIds :
    Cardinality({j \in JobIds : jobs[j].repoId = x /\ jobs[j].status \in NonTerminal}) <= 1

\* C2: a job's status changes only queued -> processing, processing -> completed,
\* processing -> queued, processing -> failed; completed and failed are final.
StatusMoves == {<<"queued", "processing">>, <<"processing", "completed">>,
                <<"processing", "queued">>, <<"processing", "failed">>}
C2_StatusMoves ==
  [][\A j \in JobIds :
       jobs'[j].status # jobs[j].status => <<jobs[j].status, jobs'[j].status>> \in StatusMoves]_vars

\* C3: at most one job has status processing at any time, and at most one
\* processor invocation is inside the processing of a job.
C3_OneProcessing ==
  /\ Cardinality({j \in JobIds : jobs[j].status = "processing"}) <= 1
  /\ Cardinality({c \in Cycles : InTry(c)}) <= 1

\* C4: a job all of whose attempts failed is, once no attempt of it is in
\* progress, queued with lastError set after 1 or 2 attempts, and failed with
\* attempts = 3 and lastError = the message of the third failure after 3.
C4_ThreeFailures ==
  \A j \in JobIds :
    (~Working(j) /\ AllFailed(j)) =>
      /\ Len(hist[j]) \in {1, 2} =>
           /\ jobs[j].status = "queued"
           /\ jobs[j].lastError # NoError
      /\ Len(hist[j]) = 3 =>
           /\ jobs[j].status = "failed"
           /\ jobs[j].attempts = 3
           /\ jobs[j].lastError = hist[j][3]

\* C5: a job whose attempts 1 and 2 failed and whose attempt 3 succeeded is,
\* once no attempt of it is in progress, completed with attempts = 3 and
\* lastError null.
C5_SuccessOnThird ==
  \A j \in JobIds :
    (~Working(j) /\ Len(hist[j]) = 3 /\ FailedAt(j, 1) /\ FailedAt(j, 2) /\ hist[j][3] = Ok) =>
      /\ jobs[j].status = "completed"
      /\ jobs[j].attempts = 3
      /\ jobs[j].lastError = NoError

\* C6: every job has 0 <= attempts <= 3, and handleRefreshRepo is entered at
\* most 3 times for any one job.
C6_AttemptsBounded ==
  \A j \in JobIds :
    /\ jobs[j].attempts >= 0
    /\ jobs[j].attempts <= 3
    /\ Len(hist[j]) <= 3

\* C7: the duplicate check of a request ends the request without a new row
\* when a queued or processing job of the repository exists, and lets it go on
\* to the creation otherwise (completed and failed jobs do not count); a job
\* row is only ever added by a request that passed the check, as one row that
\* is queued with 0 attempts. Requests that run one after another therefore
\* add at most one row while a job of the repository is queued or processing.
C7_EnqueueIfAbsent ==
  [][/\ \A r \in Requests :
          (req[r].pc = "check" /\ req'[r] # req[r]) =>
             /\ jobs' = jobs
             /\ IF \E j \in JobIds : /\ jobs[j].repoId = req[r].repoId
                                     /\ jobs[j].status \in NonTerminal
                  THEN req'[r].pc = "idle"
                  ELSE req'[r].pc = "create" /\ req'[r].repoId = req[r].repoId
     /\ Len(jobs') # Len(jobs) =>
          \E r \in Requests :
             /\ req[r].pc = "create" /\ req'[r].pc = "idle"
             /\ jobs' = Append(jobs, [repoId |-> req[r].repoId, status |-> "queued",
                                      attempts |-> 0, lastError |-> NoError])]_vars
\* a new queued job beside an earlier job of the same repository that is
\* completed or failed
C7_Witness ==
  /\ Len(jobs) = 2
  /\ jobs[1].status \in Terminal
  /\ jobs[2].repoId = jobs[1].repoId
  /\ jobs[2].status = "queued" /\ jobs[2].attempts = 0
  /\ \A r \in Requests : req[r].pc = "idle"

\* C8: in every state a record carries the health data of a refresh exactly
\* when an activity row of that refresh is there: a refreshed record has an
\* activity row with the counters its score was computed from, and every
\* activity row belongs to a refreshed record.
C8_RefreshAtomic ==
  /\ \A r \in repos :
       r.healthRefreshedAt # NoTime =>
         \E a \in activity : a.repoId = r.id /\ a.act = r.healthScore.act
  /\ \A a \in activity :
       \E r \in repos : r.id = a.repoId /\ r.healthRefreshedAt # NoTime
\* a record refreshed a second time, through the update of its activity row
C8_Witness ==
  \E r \in repos : \E a \in activity :
    /\ r.healthRefreshedAt # NoTime
    /\ a.repoId = r.id /\ a.act = r.healthScore.act /\ a.act = MaxAct
    /\ Cardinality(activity) = 1
    /\ \E j \in JobIds : jobs[j].repoId = r.id /\ Len(hist[j]) >= 2 /\ hist[j][1] = Ok

\* C9: a step of a processor invocation that is not the successful commit, and
\* so every step by which an attempt fails, leaves the Repository and the
\* RepoActivity table unchanged.
C9_FailedAttemptNoEffect ==
  [][\A c \in Cycles :
       (cycle'[c] # cycle[c] /\ cycle'[c].pc # "complete") =>
          repos' = repos /\ activity' = activity]_vars
\* the transaction of an attempt has failed while a refreshed record is there
C9_Witness ==
  \E c \in Cycles :
    /\ cycle[c].pc = "catch" /\ cycle[c].err = ErrTx
    /\ activity # {}

\* C10: a job whose record is gone has no activity row, and once three
\* attempts of it have all failed and none is in progress it is failed with
\* attempts = 3 and lastError = the message of the third failure.
Gone(j) == RepoById(Payload(j)) = {}
C10_DeletedRecord ==
  \A j \in JobIds :
    Gone(j) =>
      /\ \A a \in activity : a.repoId # Payload(j)
      /\ (~Working(j) /\ Len(hist[j]) = 3 /\ AllFailed(j)) =>
            /\ jobs[j].status = "failed"
            /\ jobs[j].attempts = 3
            /\ jobs[j].lastError = hist[j][3]

\* -------------------------------------------- the processor on a given queue
\* The job worker started on a database that holds the queued jobs of one
\* repository, which a detail view stored and the sweeper may have deleted
\* since; no request arrives, so no job is enqueued while the processor runs,
\* and no bound is put on the claims.
\* The queue holds a job of the stored repository, or that job and a younger
\* one of a repository that is no longer stored.
StoredRow(id, name) ==
  [id |-> id, fullName |-> name, meta |-> 1, etag |-> 1,
   healthScore |-> computeHealthScore(1, NoAct),
   healthRefreshedAt |-> NoTime, lastFetchedAt |-> 0]
QueuesOf(repoId) == {<<NewJob(repoId)>>, <<NewJob(repoId), NewJob(repoId + 1)>>}

InitQueue ==
  /\ now = 0
  /\ srcVer \in [FullNames -> 1..MaxVer]
  /\ repos \in {{}, {StoredRow(1, CHOOSE n \in FullNames : TRUE)}}
  /\ nextRepoId = 2
  /\ activity = {}
  /\ nextActId = 1
  /\ jobs \in QueuesOf(1)
  /\ cycle = [c \in Cycles |-> IF c = "c1" THEN [IdleCycle EXCEPT !.pc = "loop"] ELSE IdleCycle]
  /\ req = [r \in Requests |-> IdleReq]
  /\ served = MaxRequests
  /\ hist = [j \in 1..Len(jobs) |-> <<>>]
  /\ sweeper = IdleSweeper
  /\ call = IdleCall
  /\ calc = IdleCalc
  /\ limiter = IdleLimiter

\* the step of invocation c: the one its position enables
CycleStep(c) ==
  \/ StartCycle(c)
  \/ NextFind(c)
  \/ ClaimJob(c)
  \/ Load(c)
  \/ Fetch(c)
  \/ FindAct(c)
  \/ Commit(c)
  \/ Complete(c)
  \/ Catch(c)

NextQueue ==
  \/ \E c \in Cycles : StartCycle(c)
  \/ \E c \in Cycles : NextFind(c)
  \/ \E c \in Cycles : ClaimJob(c)
  \/ \E c \in Cycles : Load(c)
  \/ \E c \in Cycles : Fetch(c)
  \/ \E c \in Cycles : FindAct(c)
  \/ \E c \in Cycles : Commit(c)
  \/ \E c \in Cycles : Complete(c)
  \/ \E c \in Cycles : Catch(c)

\* Every await settles (the source client has a 10 s timeout,
\* githubService.js:22) and the cron keeps firing, so an invocation that can
\* take a step eventually takes one.
SpecQueue == InitQueue /\ [][NextQueue]_vars /\ \A c \in Cycles : WF_vars(CycleStep(c))

\* ---------------------------------------------------------------- C11
\* invocation c returns
Returns(c) == cycle[c].pc # "idle" /\ cycle'[c].pc = "idle"

\* C11: on a finite queue to which nothing is enqueued, every invocation of
\* processAllQueuedJobs that has started returns, and at the moment it returns
\* no job is queued.
C11_CycleTerminates ==
  /\ \A c \in Cycles : (cycle[c].pc # "idle") ~> (cycle[c].pc = "idle")
  /\ [][\A c \in Cycles : Returns(c) => QueuedIds' = {}]_vars

\* the first invocation has returned after both jobs of the queue were tried
C11_Witness ==
  /\ cycle["c1"].pc = "idle"
  /\ Len(jobs) = 2
  /\ \A j \in JobIds : hist[j] # <<>>
  /\ QueuedIds = {}

\* ---------------------------------------------------------------- C12
\* invocation c executes the claiming update of processNextJob
Claims(c) == cycle[c].pc = "claim" /\ cycle'[c].pc = "load"

\* C12: every claim takes the oldest queued job, raises its attempts by
\* exactly 1 and clears its lastError.
C12_ClaimOldestQueued ==
  [][\A c \in Cycles :
       Claims(c) =>
         LET j == cycle[c].job
         IN /\ j = OldestQueued
            /\ jobs'[j].status = "processing"
            /\ jobs'[j].attempts = jobs[j].attempts + 1
            /\ jobs'[j].lastError = NoError]_vars

\* ------------------------------------------------- the sweeper on its own
\* cleanupStaleRepositories and its scheduler (cleanupRepos.js) on a database
\* of up to MaxRepoId records, some with activity rows, each record fetched 8,
\* 7 or 6 days ago, today, or never (lastFetchedAt null, a row that predates
\* the column). Between sweeps a detail view may touch a record and days pass.
SweepNames == [id \in 1..MaxRepoId |-> "o/r" \o ToString(id)]
Ages       == {REPO_TTL_DAYS + 1, REPO_TTL_DAYS, REPO_TTL_DAYS - 1, 0}
SweepStart == REPO_TTL_DAYS + 1
FetchedAts == {NoTime} \cup {SweepStart - a : a \in Ages}
AgedRow(id, at) == [StoredRow(id, SweepNames[id]) EXCEPT !.lastFetchedAt = at]
ActivityRow(id) == [id |-> id, repoId |-> id, window |-> 0, act |-> 0]
\* every database with at most one record per id
Databases ==
  {rows \in SUBSET {AgedRow(id, at) : id \in 1..MaxRepoId, at \in FetchedAts} :
     \A r, q \in rows : r.id = q.id => r = q}

InitSweep ==
  /\ now = SweepStart
  /\ srcVer = [n \in FullNames |-> 1]
  /\ repos \in Databases
  /\ nextRepoId = MaxRepoId + 1
  /\ activity \in SUBSET {ActivityRow(r.id) : r \in repos}
  /\ nextActId = MaxRepoId + 1
  /\ jobs = <<>>
  /\ cycle = [c \in Cycles |-> IdleCycle]
  /\ req = [r \in Requests |-> IdleReq]
  /\ served = MaxRequests
  /\ hist = <<>>
  /\ sweeper = IdleSweeper
  /\ call = IdleCall
  /\ calc = IdleCalc
  /\ limiter = IdleLimiter

\* what cleanupStaleRepositories resolves to: {deleted: result.count} (cleanupRepos.js:51)
Returned(count) == [deleted |-> count, error |-> NoError]
\* what it rejects with: the error of deleteMany, rethrown (cleanupRepos.js:52-55)
Rejected(msg)   == [deleted |-> -1, error |-> msg]

\* the scheduler's .catch handler (cleanupRepos.js:73-75, 79-81): the error is
\* logged there and goes no further; the timer stays
CaughtAndStopped(s) == [s EXCEPT !.caught = @ + 1, !.started = FALSE]
Caught(s)           == [s EXCEPT !.caught = @ + 1]

\* One invocation of cleanupStaleRepositories by a caller in state s: the
\* deleteMany with its cascade, or a deleteMany that throws and deletes nothing.
Sweep(s) ==
  \/ /\ repos' = repos \ StaleRepos
     /\ activity' = {a \in activity : \A r \in StaleRepos : a.repoId # r.id}
     /\ sweeper' = [s EXCEPT !.sweeps = @ + 1, !.streak = @ + 1, !.prev = s.ret,
                             !.ret = Returned(Cardinality(StaleRepos))]
  \/ /\ UNCHANGED <<repos, activity>>
     /\ sweeper' = [Caught(s) EXCEPT !.sweeps = @ + 1, !.streak = 0, !.prev = s.ret,
                                     !.ret = Rejected(ErrDb)]

\* startCleanupScheduler (cleanupRepos.js:69-83): the immediate sweep, and the
\* timer set
startCleanupScheduler ==
  /\ ~ sweeper.started
  /\ Sweep([sweeper EXCEPT !.started = TRUE])
  /\ UNCHANGED <<now, srcVer, nextRepoId, nextActId, jobs, cycle, req, served, hist, call, calc, limiter>>

\* the setInterval callback (cleanupRepos.js:78-82)
IntervalFires ==
  /\ sweeper.started
  /\ sweeper.fires < MaxFires
  /\ Sweep([sweeper EXCEPT !.fires = @ + 1])
  /\ UNCHANGED <<now, srcVer, nextRepoId, nextActId, jobs, cycle, req, served, hist, call, calc, limiter>>

\* a detail view of a stored record answered 304 (search.js:192-207)
Touch ==
  /\ \E r \in repos :
       /\ r.lastFetchedAt # now
       /\ repos' = (repos \ {r}) \cup {ViewTouchedRow(r)}
  /\ sweeper' = [sweeper EXCEPT !.streak = 0]
  /\ UNCHANGED <<now, srcVer, nextRepoId, activity, nextActId, jobs, cycle, req, served, hist, call, calc, limiter>>

DayPasses ==
  /\ now < SweepStart + MaxDays
  /\ now' = now + 1
  /\ sweeper' = [sweeper EXCEPT !.streak = 0]
  /\ UNCHANGED <<srcVer, repos, nextRepoId, activity, nextActId, jobs, cycle, req, served, hist, call, calc, limiter>>

NextSweep ==
  \/ startCleanupScheduler
  \/ IntervalFires
  \/ Touch
  \/ DayPasses

SpecSweep == InitSweep /\ [][NextSweep]_vars

\* ---------------------------------------------------------------- C13
\* an invocation of cleanupStaleRepositories returns normally
SweepReturns == sweeper'.sweeps = sweeper.sweeps + 1 /\ sweeper'.ret.error = NoError

\* C13: a sweep that returns has deleted exactly the records whose
\* lastFetchedAt is null or strictly earlier than now - TTL, has left every
\* other record as it was, and returns the number of records deleted; with
\* the TTL of 7 days a record fetched 6 days ago stays and one fetched 8 days
\* ago goes.
C13_SweepDeletesStale ==
  [][SweepReturns =>
       /\ repos' \subseteq repos
       /\ \A r \in repos :
            r \notin repos' <=> (r.lastFetchedAt = NoTime \/ r.lastFetchedAt < now - REPO_TTL_DAYS)
       /\ sweeper'.ret.deleted = Cardinality(repos \ repos')
       /\ \A r \in repos : r.lastFetchedAt = now - 6 => r \in repos'
       /\ \A r \in repos : r.lastFetchedAt = now - 8 => r \notin repos']_vars

\* a first sweep has deleted one record and kept those fetched 6 and exactly 7 days ago
C13_Witness ==
  /\ sweeper.sweeps = 1
  /\ sweeper.streak = 1
  /\ sweeper.ret = Returned(1)
  /\ \E r \in repos : r.lastFetchedAt \in {now - 6, now - REPO_TTL_DAYS}

C15_NoOrphanActivity ==
  \A a \in activity : \E r \in repos : r.id = a.repoId

\* a record with an activity row has been swept while a refresh of it was
\* about to commit
C15_Witness ==
  /\ nextActId > 1
  /\ activity = {}
  /\ \E c \in Cycles : cycle[c].pc = "commit" /\ RepoById(Payload(cycle[c].job)) = {}

\* ---------------------------------------------------------------- C16
\* a sweep is attempted and rejects
SweepFails == sweeper'.sweeps = sweeper.sweeps + 1 /\ sweeper'.ret.error # NoError

\* C16: once started, the scheduler has attempted one sweep at the start and
\* one for every firing of its interval timer; a sweep that fails hands its
\* error to the catch handler of that one invocation, and the timer stays, so
\* that the sweep of the next firing is attempted.
C16_SchedulerKeepsSweeping ==
  /\ [](sweeper.started => sweeper.sweeps = 1 + sweeper.fires)
  /\ [](~ sweeper.started => sweeper.sweeps = 0)
  /\ [][sweeper.started => sweeper'.started]_vars
  /\ [][SweepFails => /\ sweeper'.caught = sweeper.caught + 1
                      /\ repos' = repos /\ activity' = activity]_vars
  /\ [][sweeper'.caught # sweeper.caught => SweepFails]_vars
  /\ [](sweeper.started /\ sweeper.fires < MaxFires => ENABLED IntervalFires)

\* the sweep at the start failed, and the sweep of the first firing returned
C16_Witness ==
  /\ sweeper.started
  /\ sweeper.fires = 1
  /\ sweeper.sweeps = 2
  /\ sweeper.caught = 1
  /\ sweeper.prev = Rejected(ErrDb)
  /\ sweeper.ret.error = NoError

\* ---------------------------------------------------------------- C17
\* C17: at most one RepoActivity row exists per repository and window, in
\* every reachable state, also when two refreshes of one repository overlap.
C17_OneRowPerWindow ==
  \A a, b \in activity : a.repoId = b.repoId /\ a.window = b.window => a.id = b.id

\* ---------------------------------------------------------------- C18
\* the detail view writes the record it fetched
ViewStores == req["view"].pc = "store" /\ req'["view"].pc # "store" /\ repos' # repos
\* the refresh of invocation c commits
Commits(c) == cycle[c].pc = "commit" /\ cycle'[c].pc = "complete"

\* C18: every successful fetch sets lastFetchedAt of the record: after the
\* write of a detail view it is the time of that write, and after the commit
\* of a job refresh it is not earlier than the time that refresh fetched.
C18_LastFetchedAtIsLastContact ==
  [][/\ ViewStores =>
          \A r \in repos' : r.fullName = req["view"].name => r.lastFetchedAt = now
     /\ \A c \in Cycles :
          Commits(c) =>
            \A r \in repos' : r.id = Payload(cycle[c].job) => r.lastFetchedAt >= cycle[c].window]_vars

\* ---------------------------------------------------------------- C19
\* C19: while invocations of the processor keep being scheduled and every
\* step of them is eventually taken, every job of the queue reaches status
\* completed or failed, from wherever it stands: no job stays queued or
\* processing forever.
C19_JobsReachTerminal ==
  \A j \in 1..MaxJobs :
    (j \in JobIds) ~> (j \in JobIds /\ jobs[j].status \in Terminal)

\* the older job has completed and the younger one has failed for good
C19_Witness ==
  /\ Len(jobs) = 2
  /\ jobs[1].status = "completed"
  /\ jobs[2].status = "failed"
  /\ \A c \in Cycles : cycle[c].pc = "idle"

\* ------------------------------------------ the GitHub client on its own
\* One call of withRetry (githubService.js:47-62) against a source whose
\* answers to the successive requests of the call are given: success, a
\* rate-limit response (403, with or without a retry-after header, which may
\* be 0), or another error (500).
RetryAfters == {NoRetryAfter, 0, 2}
Responses ==
  {[status |-> 200, retryAfter |-> NoRetryAfter], [status |-> 500, retryAfter |-> NoRetryAfter]}
    \cup {[status |-> 403, retryAfter |-> h] : h \in RetryAfters}

InitRetry ==
  /\ now = 0
  /\ srcVer = [n \in FullNames |-> 1]
  /\ repos = {}
  /\ nextRepoId = 1
  /\ activity = {}
  /\ nextActId = 1
  /\ jobs = <<>>
  /\ cycle = [c \in Cycles |-> IdleCycle]
  /\ req = [r \in Requests |-> IdleReq]
  /\ served = MaxRequests
  /\ hist = <<>>
  /\ sweeper = IdleSweeper
  /\ calc = IdleCalc
  /\ limiter = IdleLimiter
  /\ call \in {[IdleCall EXCEPT !.pc = "request", !.resp = rs, !.attempt = 1] :
                 rs \in [1..MaxResp -> Responses]}

\* Number.parseInt(headers["retry-after"] ?? "0", 10) || attempt * 3
retryAfterSeconds(response, attempt) ==
  IF response.retryAfter > 0 THEN response.retryAfter ELSE attempt * BackoffSeconds

\* the error thrown to the caller: its response status
Surfaced(response) == IF response.status = 403 THEN "403" ELSE "500"

\* withRetry(requestFn, attempt): one request; on 403 with attempt <= 3 the
\* wait and the recursive call, otherwise the result or the error
withRetry ==
  LET response == call.resp[call.requests + 1]
  IN /\ call.pc = "request"
     /\ call.requests < Len(call.resp)
     /\ call' =
          IF response.status = 200
            THEN [call EXCEPT !.pc = "done", !.requests = @ + 1, !.out = "ok"]
          ELSE IF response.status = 403 /\ call.attempt <= RetryAttempts
            THEN [call EXCEPT !.requests = @ + 1, !.attempt = @ + 1,
                              !.waits = Append(@, retryAfterSeconds(response, call.attempt))]
          ELSE [call EXCEPT !.pc = "done", !.requests = @ + 1, !.out = Surfaced(response)]
     /\ UNCHANGED <<now, srcVer, repos, nextRepoId, activity, nextActId, jobs, cycle, req,
                    served, hist, sweeper, calc, limiter>>

NextRetry == withRetry

SpecRetry == InitRetry /\ [][NextRetry]_vars

\* ---------------------------------------------------------------- C20
\* every request of the call is answered with 403
AllRateLimited == call.resp # <<>> /\ \A i \in 1..Len(call.resp) : call.resp[i].status = 403

\* C20: a call whose every request is answered with 403 issues at most 3
\* requests, waiting before each retry, and then surfaces the 403 to its
\* caller; a call whose first request fails with another error surfaces that
\* error after this one request.
C20_ThreeRequestsInTotal ==
  /\ AllRateLimited =>
       /\ call.requests <= 3
       /\ Len(call.waits) = call.requests - (IF call.pc = "done" THEN 1 ELSE 0)
       /\ call.pc = "done" => call.out = "403"
  /\ call.resp # <<>> /\ call.resp[1].status = 500 =>
       /\ call.requests <= 1
       /\ call.pc = "done" => call.requests = 1 /\ call.out = "500" /\ call.waits = <<>>

\* -------------------------------------- the functions of healthScore.js
\* computeHealthScore (healthScore.js:6-45) in numbers. A repository is given
\* by the age of its last commit in days (now - lastCommitAt; negative for a
\* commit dated in the future; committed = FALSE for lastCommitAt = null), its
\* stars and its open issues. The weighted terms are kept in sixtieths of a
\* point, the common denominator of 30/180, 10/4, 10/100, 25/20 and 15/10, so
\* that every term is an integer.
Min(a, b) == IF a < b THEN a ELSE b
Max(a, b) == IF a > b THEN a ELSE b
Sixtieths == 60

\* Math.log10 on the powers of ten, the only arguments it is applied to here
RECURSIVE Log10(_)
Log10(n) == IF n < 10 THEN 0 ELSE 1 + Log10(n \div 10)

\* activitySummary = null
NoSummary == [prsOpened |-> NoAct, prsMerged |-> NoAct, issuesOpened |-> NoAct]
\* activitySummary?.field ?? 0 (healthScore.js:25, 29, 33)
Counter(summary, field) == IF summary = NoSummary THEN 0 ELSE summary[field]

\* 30 * recency, recency = max(0, 1 - age / 180 days) or 0 (healthScore.js:13-16)
RecencyTerm(repo) ==
  IF repo.committed THEN Max(0, 30 * Sixtieths - (30 * Sixtieths * repo.ago) \div 180) ELSE 0
\* 10 * min(log10(stars + 1) / 4, 1) (healthScore.js:19)
StarsTerm(repo) == Min((10 * Sixtieths * Log10(repo.stars + 1)) \div 4, 10 * Sixtieths)
\* 10 * min(openIssues / 100, 1) (healthScore.js:22)
OpenIssuesTerm(repo) == Min((10 * Sixtieths * repo.openIssues) \div 100, 10 * Sixtieths)
\* 25 * min(prsOpened / 20, 1) (healthScore.js:25-26)
PrsOpenedTerm(summary) ==
  Min((25 * Sixtieths * Counter(summary, "prsOpened")) \div 20, 25 * Sixtieths)
\* 15 * min(prsMerged / 10, 1) (healthScore.js:29-30)
PrsMergedTerm(summary) ==
  Min((15 * Sixtieths * Counter(summary, "prsMerged")) \div 10, 15 * Sixtieths)
\* 10 * min(issuesOpened / 10, 1) (healthScore.js:33-34)
IssuesOpenedTerm(summary) ==
  Min((10 * Sixtieths * Counter(summary, "issuesOpened")) \div 10, 10 * Sixtieths)

\* Math.round of a non-negative number of sixtieths (healthScore.js:36)
Round(sixtieths) == (2 * sixtieths + Sixtieths) \div (2 * Sixtieths)
\* a result that is returned as rounded
Unclamped(score) == score
\* Math.min(100, score) (healthScore.js:44)
Clamp(score) == Min(100, score)

healthScoreOf(repo, summary) ==
  Clamp(Round(RecencyTerm(repo) + StarsTerm(repo) + OpenIssuesTerm(repo)
              + PrsOpenedTerm(summary) + PrsMergedTerm(summary) + IssuesOpenedTerm(summary)))

\* summarizeActivity (healthScore.js:47-79) on the records of the activity
\* fetch: a pull is given by whether it has merged_at, an issue by whether it
\* has the pull_request marker and by its comments. The window it adds is the
\* clock's, and meanMergeDays enters no score.
\* a count of every issue record, marked or not
CountAll(issues) == Len(issues)
\* issues.filter((issue) => !issue.pull_request).length (healthScore.js:54)
CountUnmarked(issues) == Len(SelectSeq(issues, LAMBDA issue : ~ issue.pull_request))
RECURSIVE SumComments(_)
SumComments(issues) ==
  IF issues = <<>> THEN 0 ELSE Head(issues).comments + SumComments(Tail(issues))

summarizeActivity(pulls, issues) ==
  [prsOpened     |-> Len(pulls),
   prsMerged     |-> Len(SelectSeq(pulls, LAMBDA pull : pull.merged)),
   issuesOpened  |-> CountUnmarked(issues),
   issuesComment |-> SumComments(issues)]

\* the arguments the functions are applied to
Agos            == {-360, -63, -1, 0, 1, 90, 179, 180, 400}
StarCounts      == {0, 9, 999, 9999, 99999}
OpenIssueCounts == {0, 50, 100, 5000}
RepoInputs ==
  [committed : {TRUE}, ago : Agos, stars : StarCounts, openIssues : OpenIssueCounts]
    \cup [committed : {FALSE}, ago : {0}, stars : StarCounts, openIssues : OpenIssueCounts]
Summaries ==
  {NoSummary} \cup [prsOpened : {0, 10, 20, 1000}, prsMerged : {0, 10, 1000},
                    issuesOpened : {0, 5, 10, 1000}]
SeqsUpTo(S, n) == UNION {[1..k -> S] : k \in 0..n}
PullInputs  == SeqsUpTo([merged : BOOLEAN], MaxPulls)
IssueInputs == SeqsUpTo([pull_request : BOOLEAN, comments : 0..1], MaxIssues)

InitCalc ==
  /\ now = 0
  /\ srcVer = [n \in FullNames |-> 1]
  /\ repos = {}
  /\ nextRepoId = 1
  /\ activity = {}
  /\ nextActId = 1
  /\ jobs = <<>>
  /\ cycle = [c \in Cycles |-> IdleCycle]
  /\ req = [r \in Requests |-> IdleReq]
  /\ served = MaxRequests
  /\ hist = <<>>
  /\ sweeper = IdleSweeper
  /\ call = IdleCall
  /\ limiter = IdleLimiter
  /\ calc \in {[fn |-> "computeHealthScore", arg |-> <<repo, summary>>, out |-> <<>>] :
                 repo \in RepoInputs, summary \in Summaries}
          \cup {[fn |-> "summarizeActivity", arg |-> <<pulls, issues>>, out |-> <<>>] :
                 pulls \in PullInputs, issues \in IssueInputs}

ApplyComputeHealthScore ==
  /\ calc.fn = "computeHealthScore"
  /\ calc.out = <<>>
  /\ calc' = [calc EXCEPT !.out = <<healthScoreOf(calc.arg[1], calc.arg[2])>>]
  /\ UNCHANGED <<now, srcVer, repos, nextRepoId, activity, nextActId, jobs, cycle, req,
                 served, hist, sweeper, call, limiter>>

ApplySummarizeActivity ==
  /\ calc.fn = "summarizeActivity"
  /\ calc.out = <<>>
  /\ calc' = [calc EXCEPT !.out = <<summarizeActivity(calc.arg[1], calc.arg[2])>>]
  /\ UNCHANGED <<now, srcVer, repos, nextRepoId, activity, nextActId, jobs, cycle, req,
                 served, hist, sweeper, call, limiter>>

NextCalc ==
  \/ ApplyComputeHealthScore
  \/ ApplySummarizeActivity

SpecCalc == InitCalc /\ [][NextCalc]_vars

\* ---------------------------------------------------------------- C21
\* computeHealthScore has returned
Scored == calc.fn = "computeHealthScore" /\ calc.out # <<>>

\* C21: for non-negative stars and open issues, any lastCommitAt (null, past
\* or future) and any activity summary (null or non-negative counters),
\* computeHealthScore returns an integer from 0 to 100.
C21_ScoreInRange == Scored => calc.out[1] \in 0..100

\* the score of a repository whose last commit is dated in the future, with
\* full activity, is 100
C21_Witness ==
  /\ Scored
  /\ calc.arg[1].committed
  /\ calc.arg[1].ago < 0
  /\ calc.arg[2] # NoSummary
  /\ calc.out[1] = 100

\* ---------------------------------------------------------------- C22
\* C22: without an activity summary computeHealthScore returns at most 60.
C22_AtMostSixtyWithoutActivity ==
  Scored /\ calc.arg[2] = NoSummary => calc.out[1] <= 60

\* ---------------------------------------------------------------- C23
\* summarizeActivity has returned
Summarized == calc.fn = "summarizeActivity" /\ calc.out # <<>>

\* C23: issuesOpened is the number of issue records without the pull-request
\* marker; it is 0 when every record carries the marker, however many there
\* are.
C23_IssuesOpenedCountsUnmarked ==
  Summarized =>
    LET issues == calc.arg[2]
    IN /\ calc.out[1].issuesOpened =
            Cardinality({i \in DOMAIN issues : ~ issues[i].pull_request})
       /\ (\A i \in DOMAIN issues : issues[i].pull_request) => calc.out[1].issuesOpened = 0

\* three issue records, all of them pull requests: issuesOpened = 0
C23_Witness ==
  /\ Summarized
  /\ Len(calc.arg[2]) = MaxIssues
  /\ \A i \in DOMAIN calc.arg[2] : calc.arg[2][i].pull_request
  /\ calc.out[1].issuesOpened = 0

\* ------------------------------------------- the rate limiter on its own
\* rateLimiter of routes/search.js (utils/rateLimiter.js:7-29), its clock in
\* seconds. Requests arrive at any moment, several within one second, and
\* between requests 1, 2 or 3 seconds pass.
Waits == {1, 2, 3}

InitLimiter ==
  /\ now = 0
  /\ srcVer = [n \in FullNames |-> 1]
  /\ repos = {}
  /\ nextRepoId = 1
  /\ activity = {}
  /\ nextActId = 1
  /\ jobs = <<>>
  /\ cycle = [c \in Cycles |-> IdleCycle]
  /\ req = [r \in Requests |-> IdleReq]
  /\ served = MaxRequests
  /\ hist = <<>>
  /\ sweeper = IdleSweeper
  /\ call = IdleCall
  /\ calc = IdleCalc
  /\ limiter = IdleLimiter

\* buckets.get(key) ?? {tokens: tokensPerInterval, updatedAt: now} (rateLimiter.js:12)
BucketOf(ip) ==
  IF limiter.buckets[ip] = NoBucket
    THEN [tokens |-> tokensPerInterval, updatedAt |-> limiter.clock]
    ELSE limiter.buckets[ip]
\* Math.floor((elapsed / intervalMs) * tokensPerInterval) (rateLimiter.js:13-15)
Refill(bucket) == ((limiter.clock - bucket.updatedAt) * tokensPerInterval) \div intervalSeconds
\* the bucket after the refill (rateLimiter.js:16-17)
Refilled(bucket) ==
  [tokens |-> Min(tokensPerInterval, bucket.tokens + Refill(bucket)), updatedAt |-> limiter.clock]

\* rateLimiter(req, res, next) for a request from ip. The refill is written
\* into the bucket object itself, so for a bucket that is in the map it stays
\* also when the request is rejected (rateLimiter.js:16-23).
rateLimiter(ip) ==
  LET bucket == Refilled(BucketOf(ip))
  IN /\ IF bucket.tokens <= 0
          THEN limiter' = [limiter EXCEPT
                 !.buckets[ip] = IF @ = NoBucket THEN NoBucket ELSE bucket,
                 !.ip = ip, !.answer = 429]
          ELSE limiter' = [limiter EXCEPT
                 !.buckets[ip] = [bucket EXCEPT !.tokens = @ - 1],
                 !.ip = ip, !.answer = 200,
                 !.admitted[ip] = IF limiter.clock < intervalSeconds THEN @ + 1 ELSE @,
                 !.lastAdmit[ip] = limiter.clock]
     /\ UNCHANGED <<now, srcVer, repos, nextRepoId, activity, nextActId, jobs, cycle, req,
                    served, hist, sweeper, call, calc>>

\* Date.now() moves on
ClockMoves ==
  /\ \E w \in Waits :
       /\ limiter.clock + w <= MaxClock
       /\ limiter' = [limiter EXCEPT !.clock = @ + w]
  /\ UNCHANGED <<now, srcVer, repos, nextRepoId, activity, nextActId, jobs, cycle, req,
                 served, hist, sweeper, call, calc>>

NextLimiter ==
  \/ \E ip \in Ips : rateLimiter(ip)
  \/ ClockMoves

SpecLimiter == InitLimiter /\ [][NextLimiter]_vars

\* ---------------------------------------------------------------- C24
\* C24: the limiter lets through at most 20 requests of one address in any
\* 60 seconds; here, in the 60 seconds that start with the process.
C24_TwentyPerMinute ==
  \A ip \in Ips : limiter.admitted[ip] <= tokensPerInterval

\* ---------------------------------------------------------------- C30
\* a request from ip reaches the limiter and changes its state
Arrives(ip) == limiter'.clock = limiter.clock /\ limiter' # limiter /\ limiter'.ip = ip

\* C30: a request from an address whose bucket is empty, arriving at least one
\* interval after the last request of that address that was let through, is
\* let through, whatever was rejected in between.
C30_RefillDespiteRejections ==
  [][\A ip \in Ips :
       (/\ Arrives(ip)
        /\ limiter.buckets[ip] # NoBucket
        /\ limiter.buckets[ip].tokens = 0
        /\ limiter.lastAdmit[ip] # NoTime
        /\ limiter.clock - limiter.lastAdmit[ip] >= intervalSeconds)
       => limiter'.answer = 200 /\ limiter'.lastAdmit[ip] = limiter.clock]_vars

\* ---------------------------------------------------------------- C25
\* the detail view finishes its create / update / touch of the record
ViewWrites == req["view"].pc = "store" /\ req'["view"].pc # "store"
\* the record that the detail view in progress is about
Viewed(r) ==
  /\ r.fullName = req["view"].name
  /\ req["view"].repoId # NoRow => r.id = req["view"].repoId
\* rows of repos that have no row of the same id in repos'
Deleted == {r \in repos : \A q \in repos' : q.id # r.id}

\* C25: a detail view leaves lastFetchedAt = now on the record it is about,
\* whether it created it, stored changed data or got not-modified; no step
\* moves lastFetchedAt of a record back; and a record is only deleted when
\* its lastFetchedAt is null or more than the TTL ago. So a record viewed
\* less than the TTL ago is never deleted by a sweep.
C25_ViewedRecordSurvivesSweep ==
  [][/\ ViewWrites => \A r \in repos' : Viewed(r) => r.lastFetchedAt = now
     /\ \A r \in repos : \A q \in repos' : q.id = r.id => q.lastFetchedAt >= r.lastFetchedAt
     /\ \A r \in Deleted : r.lastFetchedAt = NoTime \/ now - r.lastFetchedAt > REPO_TTL_DAYS]_vars
\* a record that was refreshed before the clock moved, and whose source has
\* not changed, has been viewed again (not-modified) after the clock moved
C25_Witness ==
  /\ now > 0
  /\ req["view"].pc # "store"
  /\ \E r \in repos :
        /\ r.lastFetchedAt = now
        /\ srcVer[r.fullName] = 1
        /\ \E a \in activity : a.repoId = r.id /\ a.window = 0

\* ---------------------------------------------------------------- C27
\* C27: the etag stored on a record is the validator the source returned with
\* the metadata stored on that record (the validator of a version is its
\* number), whatever the interleaving of detail views and job refreshes.
C27_EtagMatchesMetadata ==
  \A r \in repos : r.etag = r.meta
\* a job refresh has stored a changed version: the record was last viewed
\* before the clock moved and carries the second version of the source
C27_Witness ==
  \E r \in repos :
    /\ r.meta = 2 /\ r.etag = 2
    /\ r.lastFetchedAt = 0 /\ now > 0
    /\ r.healthRefreshedAt = now

\* ---------------------------------------------------------------- C28
\* C28: the commit of a job refresh never replaces the metadata stored on a
\* record by an older version of the source.
C28_NoRevertToOlderVersion ==
  [][\A c \in Cycles :
       Commits(c) =>
         \A r \in repos : \A q \in repos' : q.id = r.id => q.meta >= r.meta]_vars

\* ---------------------------------------------------------------- C26
\* the conditional fetch of invocation c returns not-modified
NotModified(c) ==
  /\ cycle[c].pc = "fetch"
  /\ cycle'[c].pc = "findAct"
  /\ cycle'[c].data = NoData

\* C26: a job whose conditional fetch returned not-modified goes on to the
\* activity window with the metadata and the etag it loaded, and its commit
\* changes nothing of the record but healthScore and healthRefreshedAt.
C26_NotModifiedKeepsMetadata ==
  [][\A c \in Cycles :
       /\ NotModified(c) =>
            /\ cycle'[c].meta = cycle[c].meta
            /\ cycle'[c].etag = cycle[c].etag
            /\ cycle'[c].act \in ActVals
       /\ Commits(c) /\ cycle[c].data = NoData =>
            /\ \A r \in repos : \A q \in repos' :
                 q.id = r.id =>
                   [q EXCEPT !.healthScore = r.healthScore,
                             !.healthRefreshedAt = r.healthRefreshedAt] = r
            /\ \A q \in repos' :
                 q.id = Payload(cycle[c].job) =>
                   /\ q.healthScore = computeHealthScore(cycle[c].meta, cycle[c].act)
                   /\ q.healthRefreshedAt = now
                   /\ \E a \in activity' : /\ a.repoId = q.id /\ a.window = cycle[c].window
                                            /\ a.act = cycle[c].act]_vars

\* ---------------------------------------------------------------- C29
\* the catch block of invocation c puts its job back in the queue
Requeues(c) ==
  /\ cycle[c].pc = "catch" /\ cycle'[c].pc # "catch"
  /\ jobs'[cycle[c].job].status = "queued"
\* queued jobs that have been attempted before
RequeuedIds == {k \in QueuedIds : jobs[k].attempts >= 1}

\* C29: a requeue leaves the job at its place in the order of creation and
\* sends the invocation straight back to its loop, and no claim takes a job
\* that is younger than a requeued job still waiting: the attempts of the
\* oldest queued job follow one another with no other job in between.
C29_RetriesBackToBack ==
  [][\A c \in Cycles :
       /\ Requeues(c) =>
            /\ Len(jobs') = Len(jobs)
            /\ \A k \in JobIds : k # cycle[c].job => jobs'[k] = jobs[k]
            /\ jobs'[cycle[c].job].repoId = jobs[cycle[c].job].repoId
            /\ cycle'[c].pc = "loop"
       /\ Claims(c) => \A k \in RequeuedIds : cycle[c].job <= k]_vars

====
